---- MODULE Spec2Model ----
(***************************************************************************)
(* State-machine model of SSMemSegment (core/src/db/insert/SSMemSegment.cpp): *)
(* the memory-bounded insert buffer of one (collection, partition) pair.   *)
(* One action per public operation; each action is the whole method.       *)
(***************************************************************************)
EXTENDS Integers, Sequences, FiniteSets, TLC

(***************************************************************************)
(* Bounds of the model.                                                    *)
(***************************************************************************)
\* The ceiling MAX_TABLE_FILE_MEM of db/Constants.h (128 MB there), scaled
\* down so that a handful of records fills the segment.
MAX_TABLE_FILE_MEM == 16

\* Largest "dimension" parameter a snapshot carries; the smallest is -1.
MaxDim == 2

\* Largest document id offered by a record source or a delete request.
MaxId == 2

\* Longest batch of a record source.
MaxBatch == 2

\* Longest id list of a batch delete.
MaxDeleteIds == 1

\* Largest per-record attribute payload of an entity source, in bytes.
MaxAttrSize == 3

\* Largest document id, and longest id list of a batch delete, of the
\* specification that exercises deletion alone (SpecDelete).
MaxWideId == 3

MaxWideDeleteIds == 2

(***************************************************************************)
(* Program constants and the sets the inputs are drawn from.               *)
(***************************************************************************)
\* sizeof(float)
FLOAT_TYPE_SIZE == 4

Dims == (0 - 1) .. MaxDim
Ids == 1 .. MaxId
\* The ids CommitNewSegment hands out.  The file never compares an id or
\* computes on one, so one value stands for all; 0 is kept for the null
\* segment_.
SegmentIds == {1}
WideIds == 1 .. MaxWideId

Min(a, b) == IF a <= b THEN a ELSE b

\* All sequences over S of length at most n.
SeqUpTo(S, n) == UNION {[1 .. k -> S] : k \in 0 .. n}

(***************************************************************************)
(* size_t and its arithmetic.                                              *)
(***************************************************************************)
\* size_t has 64 bits, more than an integer of the model holds: a size_t
\* value is written as its four 16-bit limbs, most significant first, so
\* <<a, b, c, d>> stands for a * 2^48 + b * 2^32 + c * 2^16 + d.
LimbBase == 2 ^ 16

\* The limb values below which a product with another limb stays an integer
\* of the model.
HalfLimbBase == 2 ^ 15

\* Conversion of a signed integer to size_t: two's complement, sign extended.
ToSizeT(x) ==
    IF 0 <= x /\ x < LimbBase THEN <<0, 0, 0, x>>
    ELSE <<(((x \div LimbBase) \div LimbBase) \div LimbBase) % LimbBase,
           ((x \div LimbBase) \div LimbBase) % LimbBase,
           (x \div LimbBase) % LimbBase,
           x % LimbBase>>

\* The size_t values an integer of the model holds, and their integer.
IsSmall(a) == a[1] = 0 /\ a[2] = 0 /\ a[3] < HalfLimbBase

ToInt(a) == IF IsSmall(a) THEN a[3] * LimbBase + a[4] ELSE CHOOSE n \in {} : TRUE

\* a + b in size_t
SizeAdd(a, b) ==
    LET s4 == a[4] + b[4]
        s3 == a[3] + b[3] + s4 \div LimbBase
        s2 == a[2] + b[2] + s3 \div LimbBase
        s1 == a[1] + b[1] + s2 \div LimbBase
    IN <<s1 % LimbBase, s2 % LimbBase, s3 % LimbBase, s4 % LimbBase>>

\* a - b in size_t
SizeSub(a, b) ==
    LET d4 == a[4] - b[4]
        d3 == a[3] - b[3] + d4 \div LimbBase
        d2 == a[2] - b[2] + d3 \div LimbBase
        d1 == a[1] - b[1] + d2 \div LimbBase
    IN <<d1 % LimbBase, d2 % LimbBase, d3 % LimbBase, d4 % LimbBase>>

\* a < b in size_t
SizeLess(a, b) ==
    IF a[1] # b[1] THEN a[1] < b[1]
    ELSE IF a[2] # b[2] THEN a[2] < b[2]
    ELSE IF a[3] # b[3] THEN a[3] < b[3]
    ELSE a[4] < b[4]

\* The size_t values below 2^15: a limb times one of them is an integer of
\* the model.
IsFactor(a) == a[1] = 0 /\ a[2] = 0 /\ a[3] = 0 /\ a[4] < HalfLimbBase

\* a * m in size_t, for an integer 0 <= m < 2^15
SizeTimes(a, m) ==
    LET p4 == a[4] * m
        p3 == a[3] * m + p4 \div LimbBase
        p2 == a[2] * m + p3 \div LimbBase
        p1 == a[1] * m + p2 \div LimbBase
    IN <<p1 % LimbBase, p2 % LimbBase, p3 % LimbBase, p4 % LimbBase>>

\* a * 2^(16 * k) in size_t
RECURSIVE ShiftLimbs(_, _)
ShiftLimbs(a, k) ==
    IF k = 0 THEN a ELSE ShiftLimbs(<<a[2], a[3], a[4], 0>>, k - 1)

\* a * m in size_t, for a limb m
SizeTimesLimb(a, m) ==
    SizeAdd(SizeTimes(SizeTimes(SizeTimes(a, m \div 256), 16), 16),
            SizeTimes(a, m % 256))

\* a * b in size_t
SizeMul(a, b) ==
    IF IsFactor(b) THEN SizeTimes(a, b[4])
    ELSE IF IsFactor(a) THEN SizeTimes(b, a[4])
    ELSE SizeAdd(SizeAdd(SizeTimesLimb(a, b[4]),
                         ShiftLimbs(SizeTimesLimb(a, b[3]), 1)),
                 SizeAdd(ShiftLimbs(SizeTimesLimb(a, b[2]), 2),
                         ShiftLimbs(SizeTimesLimb(a, b[1]), 3)))

\* a / d in size_t for an integer 0 < d < 2^15: division limb by limb.
SizeOver(a, d) ==
    LET t1 == a[1]
        t2 == (t1 % d) * LimbBase + a[2]
        t3 == (t2 % d) * LimbBase + a[3]
        t4 == (t3 % d) * LimbBase + a[4]
    IN <<t1 \div d, t2 \div d, t3 \div d, t4 \div d>>

\* Long division by b, bit by bit through one limb of the dividend, from its
\* bit i down: rem is the remainder of the bits above, quot the bits of the
\* quotient limb found so far; the result is <<quotient limb, remainder>>.
RECURSIVE DivBits(_, _, _, _, _)
DivBits(limb, b, i, quot, rem) ==
    IF i < 0 THEN <<quot, rem>>
    ELSE LET bit == (limb \div (2 ^ i)) % 2
             shifted == SizeAdd(SizeAdd(rem, rem), ToSizeT(bit))
         IN IF rem[1] >= HalfLimbBase \/ ~SizeLess(shifted, b)
            THEN DivBits(limb, b, i - 1, 2 * quot + 1, SizeSub(shifted, b))
            ELSE DivBits(limb, b, i - 1, 2 * quot, shifted)

\* a / b in size_t, b not zero
SizeDiv(a, b) ==
    IF IsFactor(b) THEN SizeOver(a, b[4])
    ELSE LET r1 == DivBits(a[1], b, 15, 0, ToSizeT(0))
             r2 == DivBits(a[2], b, 15, 0, r1[2])
             r3 == DivBits(a[3], b, 15, 0, r2[2])
             r4 == DivBits(a[4], b, 15, 0, r3[2])
         IN <<r1[1], r2[1], r3[1], r4[1]>>

\* The number of bits of a positive limb.
RECURSIVE BitLength(_)
BitLength(m) == IF m = 0 THEN 0 ELSE 1 + BitLength(m \div 2)

\* The conversion size_t -> double -> size_t that std::ceil of an integer
\* goes through: a double has 53 significant bits, a longer value is rounded
\* to the nearest one that has, ties to the even one.  A value that rounds to
\* 2^64 has no size_t to come back to (undefined behaviour): <<>> stands for
\* it, and no record size of at least FLOAT_TYPE_SIZE reaches it.
ThroughDouble(a) ==
    IF a[1] < 32 THEN a
    ELSE LET unit == 2 ^ (BitLength(a[1]) - 5)
             dropped == a[4] % unit
             kept == SizeSub(a, ToSizeT(dropped))
             odd == (a[4] \div unit) % 2 = 1
             up == \/ 2 * dropped > unit
                   \/ 2 * dropped = unit /\ odd
             rounded == SizeAdd(kept, ToSizeT(unit))
         IN IF ~up THEN kept
            ELSE IF rounded = ToSizeT(0) THEN <<>>
            ELSE rounded

VARIABLES
    snapshot,        \* the collection's current snapshot (process-wide, external)
    current_mem,     \* current_mem_
    segment,         \* segment_: 0 when null, else the segment id
    operation,       \* operation_ is non-null
    segment_writer,  \* segment_writer_ptr_ is non-null
    uids,            \* the writer's identifier column (vectors_ptr_->GetUids())
    crashed,         \* the process died on a null dereference
    last,            \* the last call: its inputs, intermediate values and result
    threads,         \* per calling thread: where it stands inside Add and its locals
    admitted_bytes,  \* total size of the records the sources stored in the writer
    overlapped       \* some call began while another thread was inside a call

vars == <<snapshot, current_mem, segment, operation, segment_writer, uids, crashed, last,
          threads, admitted_bytes, overlapped>>

\* What only the calls of concurrent threads change.
raceVars == <<threads, admitted_bytes, overlapped>>

\* The threads that may call into one controller at the same time.
Threads == {1, 2}

\* A thread outside any call.
IdleThread == [pc |-> "idle", size |-> 0, num_added |-> 0, ok |-> TRUE,
               rows |-> <<>>, tmp |-> 0]

\* No thread is inside a call and nothing was admitted by a threaded call.
NoRace ==
    /\ threads = [t \in Threads |-> IdleThread]
    /\ admitted_bytes = 0
    /\ overlapped = FALSE

(***************************************************************************)
(* The snapshot subsystem, as far as this file reads it.                   *)
(***************************************************************************)
NoSnapshot == [avail |-> FALSE, has_dim |-> FALSE, dim |-> 0]
NoDimension == [avail |-> TRUE, has_dim |-> FALSE, dim |-> 0]
Snapshots ==
    {NoSnapshot, NoDimension}
        \cup {[avail |-> TRUE, has_dim |-> TRUE, dim |-> d] : d \in Dims}

\* SSMemSegment::GetDimension
GetDimension ==
    IF ~snapshot.avail THEN 0
    ELSE IF ~snapshot.has_dim THEN 0
    ELSE snapshot.dim

(***************************************************************************)
(* The record source (SSVectorSource), an external collaborator.           *)
(***************************************************************************)
\* The attribute payloads a record can carry; a vector source carries none.
AttrSizes == {0, MaxAttrSize}

\* The sources whose records carry attr_size bytes of attributes: they all
\* have the same record size.
SourcesOfSize(attr_size) ==
    [ids : SeqUpTo(Ids, MaxBatch), attr_size : {attr_size}, ok : BOOLEAN]

\* One of them.
SourceOfSize(attr_size) == [ids |-> <<>>, attr_size |-> attr_size, ok |-> TRUE]

Sources == UNION {SourcesOfSize(attr_size) : attr_size \in AttrSizes}

SingleVectorSize(source, dimension) ==
    SizeMul(ToSizeT(dimension), ToSizeT(FLOAT_TYPE_SIZE))

SingleEntitySize(source, dimension) ==
    SizeAdd(SizeMul(ToSizeT(dimension), ToSizeT(FLOAT_TYPE_SIZE)),
            ToSizeT(source.attr_size))

\* The count the source reports back for a quota of num_to_add records.
SourceNumAdded(source, num_to_add) ==
    IF SizeLess(num_to_add, ToSizeT(Len(source.ids)))
    THEN ToInt(num_to_add)
    ELSE Len(source.ids)

(***************************************************************************)
(* Memory accounting.                                                      *)
(***************************************************************************)
\* MAX_TABLE_FILE_MEM - current_mem_, in size_t, for a ceiling of max.
MemLeft(max, mem) == SizeSub(ToSizeT(max), ToSizeT(mem))

\* SSMemSegment::GetMemLeft, as a function of the counter.
GetMemLeftOf(mem) == MemLeft(MAX_TABLE_FILE_MEM, mem)

GetMemLeft == GetMemLeftOf(current_mem)

\* A quota that rounds the quotient up.
NumToAddCeil(mem_left, single_size) ==
    SizeDiv(SizeSub(SizeAdd(mem_left, single_size), ToSizeT(1)), single_size)

\* std::ceil(mem_left / single_vector_mem_size): the operands are size_t, the
\* division is integer division; std::ceil takes the quotient as a double and
\* the result is converted back to size_t.
NumToAdd(mem_left, single_size) == ThroughDouble(SizeDiv(mem_left, single_size))

\* A fullness test that also reports full when exactly one record still fits.
IsFullInclusive(max, mem, dimension) ==
    ~SizeLess(SizeMul(ToSizeT(dimension), ToSizeT(FLOAT_TYPE_SIZE)), MemLeft(max, mem))

\* SSMemSegment::IsFull, as a function of the ceiling, the counter and the
\* dimension: GetMemLeft() < GetDimension() * FLOAT_TYPE_SIZE, in size_t.
IsFullAt(max, mem, dimension) ==
    SizeLess(MemLeft(max, mem), SizeMul(ToSizeT(dimension), ToSizeT(FLOAT_TYPE_SIZE)))

IsFullOf(mem, dimension) == IsFullAt(MAX_TABLE_FILE_MEM, mem, dimension)

IsFull == IsFullOf(current_mem, GetDimension)

(***************************************************************************)
(* The record of a call.                                                   *)
(***************************************************************************)
\* seg_file, the local handle of Serialize, while it is null.
NullSegFile == [valid |-> FALSE, size |-> 0, row_count |-> 0]

NoCall ==
    [op |-> "Construct", status |-> "OK", dim |-> 0, size |-> ToSizeT(0),
     mem_left |-> ToSizeT(0), quota |-> ToSizeT(0), pushed |-> FALSE,
     admitted |-> 0, batch_len |-> 0,
     mem_before |-> 0, uids_before |-> <<>>, ids |-> <<>>, ret |-> FALSE,
     calls |-> <<>>, seg_file |-> NullSegFile]

(***************************************************************************)
(* Construction: SSMemSegment::SSMemSegment and CreateSegment.             *)
(***************************************************************************)
\* CreateSegment's status, given the snapshot and CommitNewSegment's answer.
CreateSegmentStatus(ss, commit_ok) ==
    IF ~ss.avail THEN "SNAPSHOT_ERROR"
    ELSE IF ~commit_ok THEN "COMMIT_ERROR"
    ELSE "OK"

Init ==
    \E ss \in Snapshots, commit_ok \in BOOLEAN, id \in SegmentIds :
        LET status == CreateSegmentStatus(ss, commit_ok) IN
        /\ snapshot = ss
        /\ current_mem = 0
        /\ operation = ss.avail
        /\ segment = IF status = "OK" THEN id ELSE 0
        /\ segment_writer = (status = "OK")
        /\ uids = <<>>
        /\ crashed = FALSE
        /\ last = [NoCall EXCEPT !.status = status]
        /\ NoRace

\* The versioning subsystem replaces the collection's current snapshot.
SnapshotChange ==
    /\ ~crashed
    /\ \E ss \in Snapshots \ {snapshot} : snapshot' = ss
    /\ last' = [NoCall EXCEPT !.op = "SnapshotChange"]
    /\ UNCHANGED <<current_mem, segment, operation, segment_writer, uids, crashed>>

(***************************************************************************)
(* Admission: SSMemSegment::Add and SSMemSegment::AddEntities.             *)
(***************************************************************************)
\* A guard that rejects only a dimension of zero.
BadDimensionZeroOnly(dimension) == dimension = 0

\* The guard of both methods: the dimension is unusable.
BadDimension(dimension) == dimension <= 0

\* A capacity test that always passes.
HasRoomAlways(mem_left, single_size) == TRUE

\* A capacity test that wants more than one record of room.
HasRoomStrict(mem_left, single_size) == SizeLess(single_size, mem_left)

\* The capacity test of both methods.
HasRoom(mem_left, single_size) == ~SizeLess(mem_left, single_size)

\* An increment that counts one record whatever the number admitted.
MemAfterAddOnce(mem, num_added, single_size) == SizeAdd(ToSizeT(mem), single_size)

\* current_mem_ += (num_added * single_size)
MemAfterAdd(mem, num_added, single_size) ==
    SizeAdd(ToSizeT(mem), SizeMul(ToSizeT(num_added), single_size))

\* An increment applied whatever status the source returned.
MemAfterPushUnchecked(source_ok, mem, num_added, single_size) ==
    MemAfterAdd(mem, num_added, single_size)

\* if (status.ok()) { current_mem_ += (num_added * single_size); }
MemAfterPush(source_ok, mem, num_added, single_size) ==
    IF source_ok THEN MemAfterAdd(mem, num_added, single_size) ELSE ToSizeT(mem)

\* The rows the source appends to the writer when it pushes num_added records.
PushedRows(source, num_added) == SubSeq(source.ids, 1, num_added)

\* The method returns before it reaches the source: nothing but `last` changes.
AddReturns(op, status, dimension, single_size, mem_left, source) ==
    /\ last' = [NoCall EXCEPT !.op = op, !.status = status, !.dim = dimension,
                              !.size = single_size, !.mem_left = mem_left,
                              !.batch_len = Len(source.ids), !.mem_before = current_mem,
                              !.uids_before = uids]
    /\ UNCHANGED <<snapshot, current_mem, segment, operation, segment_writer,
                   uids, crashed>>

\* The method calls source->Add / source->AddEntities with the quota.
AddPushes(op, dimension, single_size, mem_left, quota, source) ==
    LET num_added == SourceNumAdded(source, quota)
        call == [NoCall EXCEPT !.op = op, !.dim = dimension, !.size = single_size,
                               !.mem_left = mem_left, !.quota = quota,
                               !.pushed = TRUE, !.batch_len = Len(source.ids),
                               !.mem_before = current_mem, !.uids_before = uids]
    IN
    \/ \* the source pushes into the writer and succeeds
       /\ source.ok
       /\ segment_writer
       /\ uids' = uids \o PushedRows(source, num_added)
       /\ current_mem' = ToInt(MemAfterPush(TRUE, current_mem, num_added, single_size))
       /\ last' = [call EXCEPT !.status = "OK", !.admitted = num_added]
       /\ UNCHANGED <<snapshot, segment, operation, segment_writer, crashed>>
    \/ \* the source fails: it stores nothing, whatever count it reports
       /\ ~source.ok
       /\ segment_writer
       /\ \E reported \in {0, num_added} :
              /\ current_mem' = ToInt(MemAfterPush(FALSE, current_mem, reported,
                                                   single_size))
              /\ last' = [call EXCEPT !.status = "SOURCE_ERROR", !.admitted = reported]
       /\ UNCHANGED <<snapshot, segment, operation, segment_writer, uids, crashed>>
    \/ \* segment_writer_ptr_ is null: the source dereferences a null pointer
       \* (undefined behaviour); the process dies ...
       /\ ~segment_writer
       /\ crashed' = TRUE
       /\ last' = [call EXCEPT !.status = "CRASH"]
       /\ UNCHANGED <<snapshot, current_mem, segment, operation, segment_writer,
                      uids>>
    \/ \* ... or the call survives, storing no row
       /\ ~segment_writer
       /\ current_mem' = ToInt(MemAfterPush(source.ok, current_mem, num_added,
                                            single_size))
       /\ last' = [call EXCEPT !.status = IF source.ok THEN "OK" ELSE "SOURCE_ERROR",
                               !.admitted = num_added]
       /\ UNCHANGED <<snapshot, segment, operation, segment_writer, uids, crashed>>

\* Both methods, for a source of a set whose records all have single_size
\* bytes: the dimension, the remaining capacity and the quota do not depend on
\* which of them is offered.
AddWith(op, sources, single_size) ==
    LET dimension == GetDimension
        mem_left == GetMemLeft
        quota == NumToAdd(mem_left, single_size)
    IN
    \E source \in sources :
        IF BadDimension(dimension)
        THEN AddReturns(op, "DB_ERROR", dimension, ToSizeT(0), ToSizeT(0), source)
        ELSE IF HasRoom(mem_left, single_size)
        THEN AddPushes(op, dimension, single_size, mem_left, quota, source)
        ELSE AddReturns(op, "OK", dimension, single_size, mem_left, source)

\* SSMemSegment::Add
Add ==
    /\ ~crashed
    /\ AddWith("Add", SourcesOfSize(0),
               SingleVectorSize(SourceOfSize(0), GetDimension))

\* SSMemSegment::AddEntities
AddEntities ==
    /\ ~crashed
    /\ \E attr_size \in AttrSizes :
           AddWith("AddEntities", SourcesOfSize(attr_size),
                   SingleEntitySize(SourceOfSize(attr_size), GetDimension))

(***************************************************************************)
(* Deletion: SSMemSegment::Delete(doc_id) and Delete(doc_ids).             *)
(***************************************************************************)
\* Vectors::Erase(offset) on the identifier column; offsets count from 0.  The
\* methods only pass offsets of held rows; any other offset erases nothing here.
Erase(column, offset) ==
    IF offset >= 0 /\ offset < Len(column)
    THEN SubSeq(column, 1, offset) \o SubSeq(column, offset + 2, Len(column))
    ELSE column

\* The scan of std::find from a given offset on.
RECURSIVE FindFrom(_, _, _)
FindFrom(column, doc_id, offset) ==
    IF offset >= Len(column) THEN Len(column)
    ELSE IF column[offset + 1] = doc_id THEN offset
    ELSE FindFrom(column, doc_id, offset + 1)

\* A search that returns the last matching offset.
RECURSIVE FindLastFrom(_, _, _)
FindLastFrom(column, doc_id, offset) ==
    IF offset < 0 THEN Len(column)
    ELSE IF column[offset + 1] = doc_id THEN offset
    ELSE FindLastFrom(column, doc_id, offset - 1)

FindLast(column, doc_id) == FindLastFrom(column, doc_id, Len(column) - 1)

\* std::find(uids.begin(), uids.end(), doc_id) as an offset; Len(column) is end().
Find(column, doc_id) == FindFrom(column, doc_id, 0)

\* The column after Delete(doc_id).
DeleteOne(column, doc_id) ==
    LET found == Find(column, doc_id) IN
    IF found # Len(column) THEN Erase(column, found) ELSE column

\* std::sort(temp.begin(), temp.end()), as an insertion sort.
RECURSIVE InsertSorted(_, _)
InsertSorted(sorted, x) ==
    IF sorted = <<>> THEN <<x>>
    ELSE IF x <= Head(sorted) THEN <<x>> \o sorted
    ELSE <<Head(sorted)>> \o InsertSorted(Tail(sorted), x)

\* A copy of the ids left in the order given.
SortNone(ids) == ids

RECURSIVE Sort(_)
Sort(ids) ==
    IF ids = <<>> THEN <<>> ELSE InsertSorted(Sort(Tail(ids)), Head(ids))

\* std::binary_search(temp.begin(), temp.end(), value) on the half-open range
\* [first, last) of offsets into the sorted temp.
RECURSIVE BinarySearchIn(_, _, _, _)
BinarySearchIn(temp, value, first, end) ==
    IF first >= end THEN FALSE
    ELSE LET mid == first + (end - first) \div 2 IN
         IF temp[mid + 1] = value THEN TRUE
         ELSE IF temp[mid + 1] < value
         THEN BinarySearchIn(temp, value, mid + 1, end)
         ELSE BinarySearchIn(temp, value, first, mid)

BinarySearch(temp, value) == BinarySearchIn(temp, value, 0, Len(temp))

\* An erase offset that ignores the slots already removed in this pass.
EraseOffsetUnshifted(i, deleted) == i

\* The offset handed to Erase in the loop: i - deleted.
EraseOffset(i, deleted) == i - deleted

\* The loop of Delete(doc_ids): i runs over the copy of the column taken
\* before the loop, the erasures act on the writer's column.
RECURSIVE DeleteLoop(_, _, _, _, _)
DeleteLoop(column, copy, temp, i, deleted) ==
    IF i >= Len(copy) THEN column
    ELSE IF BinarySearch(temp, copy[i + 1])
    THEN DeleteLoop(Erase(column, EraseOffset(i, deleted)), copy, temp,
                    i + 1, deleted + 1)
    ELSE DeleteLoop(column, copy, temp, i + 1, deleted)

\* The column after Delete(doc_ids).
DeleteMany(column, doc_ids) == DeleteLoop(column, column, Sort(doc_ids), 0, 0)

\* current_mem_ after either Delete: neither method assigns it.
MemAfterDelete(mem, erased) == ToSizeT(mem)

\* Both methods: the new column on a live writer; on a null
\* segment_writer_ptr_ the dereference either kills the process or is survived
\* with nothing erased.
DeleteWith(op, doc_ids, column_after) ==
    LET call == [NoCall EXCEPT !.op = op, !.ids = doc_ids,
                               !.mem_before = current_mem, !.uids_before = uids]
    IN
    \/ /\ segment_writer
       /\ uids' = column_after
       /\ current_mem' = ToInt(MemAfterDelete(current_mem,
                                               Len(uids) - Len(column_after)))
       /\ last' = [call EXCEPT !.status = "OK"]
       /\ UNCHANGED <<snapshot, segment, operation, segment_writer, crashed>>
    \/ /\ ~segment_writer
       /\ \E dies \in BOOLEAN :
              /\ crashed' = dies
              /\ last' = [call EXCEPT !.status = IF dies THEN "CRASH" ELSE "OK"]
       /\ UNCHANGED <<snapshot, current_mem, segment, operation, segment_writer,
                      uids>>

\* SSMemSegment::Delete(segment::doc_id_t), for a doc_id of id_set
DeleteOf(id_set) ==
    /\ ~crashed
    /\ \E doc_id \in id_set :
           DeleteWith("Delete", <<doc_id>>, DeleteOne(uids, doc_id))

\* SSMemSegment::Delete(const std::vector<segment::doc_id_t>&), for a list of
\* at most max_len ids of id_set
DeleteBatchOf(id_set, max_len) ==
    /\ ~crashed
    /\ \E doc_ids \in SeqUpTo(id_set, max_len) :
           DeleteWith("DeleteBatch", doc_ids, DeleteMany(uids, doc_ids))

Delete == DeleteOf(Ids)

DeleteBatch == DeleteBatchOf(Ids, MaxDeleteIds)

(***************************************************************************)
(* The fullness query.                                                     *)
(***************************************************************************)
\* A call of SSMemSegment::IsFull
IsFullCall ==
    /\ ~crashed
    /\ last' = [NoCall EXCEPT !.op = "IsFull", !.dim = GetDimension,
                              !.mem_left = GetMemLeft, !.ret = IsFull,
                              !.mem_before = current_mem, !.uids_before = uids]
    /\ UNCHANGED <<snapshot, current_mem, segment, operation, segment_writer,
                   uids, crashed>>

\* SSMemSegment::GetSegmentId, on a non-null segment_
GetSegmentId == segment

(***************************************************************************)
(* Flush: SSMemSegment::Serialize.                                         *)
(***************************************************************************)
\* segment_writer_ptr_->VectorCount()
VectorCount == Len(uids)

\* The values segment_writer_ptr_->Size() can take: the rows held times a
\* per-row byte length known to the writer.
WriterSizes == {VectorCount * d * FLOAT_TYPE_SIZE : d \in 1 .. MaxDim}

\* A flush that pushes whatever the writer answered.
ReachesPushAlways(writer_ok) == TRUE

\* Whether the method goes on to operation_->Push() once the writer has
\* answered.
ReachesPush(writer_ok) == writer_ok

\* The status Serialize returns when no pointer it dereferences is null: the
\* status of CommitNewSegmentFile is overwritten by the writer's.
SerializeStatus(commit_ok, writer_ok, push_ok) ==
    IF ~writer_ok THEN "WRITER_ERROR"
    ELSE IF ~push_ok THEN "PUSH_ERROR"
    ELSE "OK"

\* The collaborator calls up to the writer's answer.
Phase1Calls(commit_ok, writer_ok) ==
    <<IF commit_ok THEN "CommitNewSegmentFile:OK" ELSE "CommitNewSegmentFile:ERROR",
      "SetSegmentName",
      IF writer_ok THEN "WriterSerialize:OK" ELSE "WriterSerialize:ERROR">>

\* The calls after a successful write: populate the descriptor, then Push.
Phase2Calls(push_ok) ==
    <<"SetSize", "SetRowCount", IF push_ok THEN "Push:OK" ELSE "Push:ERROR">>

\* A descriptor whose row count was never set.
PopulatedSegFileNoRows(size, row_count) ==
    [valid |-> TRUE, size |-> size, row_count |-> 0]

\* seg_file after SetSize(Size()) and SetRowCount(VectorCount()).
PopulatedSegFile(size, row_count) ==
    [valid |-> TRUE, size |-> size, row_count |-> row_count]

\* A flush that drops the segment once it is written.
SegmentAfterSerializeReset(seg) == 0

\* segment_ after Serialize: the method only reads it.
SegmentAfterSerialize(seg) == seg

Serialize ==
    /\ ~crashed
    /\ UNCHANGED <<snapshot, current_mem, operation, segment_writer, uids>>
    /\ LET call == [NoCall EXCEPT !.op = "Serialize", !.mem_before = current_mem,
                                  !.uids_before = uids]
       IN
       \/ \* segment_ is null: segment_->GetCollectionId() is undefined
          \* behaviour, and so are the calls through the null operation_ and
          \* segment_writer_ptr_ after it; the process dies ...
          /\ segment = 0
          /\ crashed' = TRUE
          /\ segment' = segment
          /\ last' = [call EXCEPT !.status = "CRASH"]
       \/ \* ... or every such dereference is survived and the method runs on
          \* as it does on a live segment
          \E commit_ok \in BOOLEAN, writer_ok \in BOOLEAN, push_ok \in BOOLEAN,
             size \in WriterSizes :
             LET phase1 == Phase1Calls(commit_ok, writer_ok)
                 phase2 == phase1 \o Phase2Calls(push_ok)
                 status == SerializeStatus(commit_ok, writer_ok, push_ok)
                 reserved == [NullSegFile EXCEPT !.valid = commit_ok]
             IN
             /\ segment' = SegmentAfterSerialize(segment)
             /\ IF ~ReachesPush(writer_ok)
                THEN \* the writer failed: return its status
                     /\ crashed' = FALSE
                     /\ last' = [call EXCEPT !.status = status, !.calls = phase1,
                                             !.seg_file = reserved]
                ELSE IF ~commit_ok
                THEN \* seg_file is null: seg_file->SetSize() is undefined
                     \* behaviour; the process dies, or the call is survived
                     \* and goes on to Push
                     \E dies \in BOOLEAN :
                         /\ crashed' = dies
                         /\ last' = [call EXCEPT
                                        !.status = IF dies THEN "CRASH" ELSE status,
                                        !.calls = IF dies THEN phase1 ELSE phase2,
                                        !.seg_file = reserved]
                ELSE /\ crashed' = FALSE
                     /\ last' = [call EXCEPT
                                    !.status = status, !.size = ToSizeT(size),
                                    !.calls = phase2,
                                    !.seg_file = PopulatedSegFile(size, VectorCount)]

Next ==
    \/ SnapshotChange /\ UNCHANGED raceVars
    \/ Add /\ UNCHANGED raceVars
    \/ AddEntities /\ UNCHANGED raceVars
    \/ Delete /\ UNCHANGED raceVars
    \/ DeleteBatch /\ UNCHANGED raceVars
    \/ IsFullCall /\ UNCHANGED raceVars
    \/ Serialize /\ UNCHANGED raceVars

Spec == Init /\ [][Next]_vars

(***************************************************************************)
(* Deletion alone, on every buffer content: a healthy controller whose     *)
(* buffer was filled by Add at dimension 1, then any deletions.            *)
(***************************************************************************)
\* The most rows the ceiling admits.
MaxRows == MAX_TABLE_FILE_MEM \div FLOAT_TYPE_SIZE

InitDelete ==
    \E column \in SeqUpTo(WideIds, MaxRows), id \in SegmentIds :
        /\ snapshot = [avail |-> TRUE, has_dim |-> TRUE, dim |-> 1]
        /\ current_mem = Len(column) * FLOAT_TYPE_SIZE
        /\ operation = TRUE
        /\ segment = id
        /\ segment_writer = TRUE
        /\ uids = column
        /\ crashed = FALSE
        /\ last = [NoCall EXCEPT !.op = "Filled"]
        /\ NoRace

DeleteWide == DeleteOf(WideIds)

DeleteBatchWide == DeleteBatchOf(WideIds, MaxWideDeleteIds)

NextDelete ==
    \/ DeleteWide /\ UNCHANGED raceVars
    \/ DeleteBatchWide /\ UNCHANGED raceVars

SpecDelete == InitDelete /\ [][NextDelete]_vars

(***************************************************************************)
(* Two threads inside Add / AddEntities of one controller.  The class holds *)
(* no lock, so the statements of two calls interleave; current_mem_ += x   *)
(* is a load followed by a store.                                          *)
(***************************************************************************)
\* The sources offered in the threaded runs: the ids play no part in the
\* accounting, so every record carries the same one.
RaceSources == {source \in Sources : \A i \in 1 .. Len(source.ids) : source.ids[i] = MaxId}

\* The threaded runs stop offering once this many bytes were admitted.
RaceBytesCap == 2 * MAX_TABLE_FILE_MEM

AllIdle == \A t \in Threads : threads[t].pc = "idle"

InitRace ==
    \E d \in 1 .. MaxDim, id \in SegmentIds :
        /\ snapshot = [avail |-> TRUE, has_dim |-> TRUE, dim |-> d]
        /\ current_mem = 0
        /\ operation = TRUE
        /\ segment = id
        /\ segment_writer = TRUE
        /\ uids = <<>>
        /\ crashed = FALSE
        /\ last = NoCall
        /\ NoRace

\* Thread t enters Add / AddEntities: it reads the dimension and the remaining
\* capacity and fixes the quota.  A call that finds no room returns at once
\* and changes nothing.
RaceBegin(t) ==
    /\ threads[t].pc = "idle"
    /\ admitted_bytes < RaceBytesCap
    /\ \E source \in RaceSources :
           LET dimension == GetDimension
               single_size == SingleEntitySize(source, dimension)
               mem_left == GetMemLeft
               num_added == SourceNumAdded(source, NumToAdd(mem_left, single_size))
           IN
           /\ ~BadDimension(dimension)
           /\ HasRoom(mem_left, single_size)
           /\ threads' = [threads EXCEPT ![t] =
                             [pc |-> "push", size |-> ToInt(single_size),
                              num_added |-> num_added, ok |-> source.ok,
                              rows |-> PushedRows(source, num_added), tmp |-> 0]]
    /\ overlapped' = (overlapped \/ \E u \in Threads \ {t} : threads[u].pc # "idle")
    /\ UNCHANGED <<snapshot, current_mem, segment, operation, segment_writer, uids,
                   crashed, last, admitted_bytes>>

\* Thread t's source pushes its records into the writer; on failure the call
\* returns the status.
RacePush(t) ==
    /\ threads[t].pc = "push"
    /\ IF threads[t].ok
       THEN /\ uids' = uids \o threads[t].rows
            /\ admitted_bytes' = admitted_bytes + Len(threads[t].rows) * threads[t].size
            /\ threads' = [threads EXCEPT ![t].pc = "load"]
       ELSE /\ threads' = [threads EXCEPT ![t] = IdleThread]
            /\ UNCHANGED <<uids, admitted_bytes>>
    /\ UNCHANGED <<snapshot, current_mem, segment, operation, segment_writer,
                   crashed, last, overlapped>>

\* Thread t loads current_mem_ for the compound assignment.
RaceLoad(t) ==
    /\ threads[t].pc = "load"
    /\ threads' = [threads EXCEPT ![t].pc = "store", ![t].tmp = current_mem]
    /\ UNCHANGED <<snapshot, current_mem, segment, operation, segment_writer, uids,
                   crashed, last, admitted_bytes, overlapped>>

\* Thread t stores the sum and returns.
RaceStore(t) ==
    /\ threads[t].pc = "store"
    /\ current_mem' = ToInt(MemAfterAdd(threads[t].tmp, threads[t].num_added,
                                        ToSizeT(threads[t].size)))
    /\ threads' = [threads EXCEPT ![t] = IdleThread]
    /\ UNCHANGED <<snapshot, segment, operation, segment_writer, uids, crashed, last,
                   admitted_bytes, overlapped>>

NextRace ==
    \/ \E t \in Threads : RaceBegin(t)
    \/ \E t \in Threads : RacePush(t)
    \/ \E t \in Threads : RaceLoad(t)
    \/ \E t \in Threads : RaceStore(t)

SpecRace == InitRace /\ [][NextRace]_vars

(***************************************************************************)
(* Properties.                                                             *)
(***************************************************************************)
IsAdd == last.op \in {"Add", "AddEntities"}

Range(seq) == {seq[i] : i \in 1 .. Len(seq)}

\* The column without the rows whose id is in id_set, order kept.
Without(column, id_set) == SelectSeq(column, LAMBDA x : x \notin id_set)

ErrorStatuses == {"DB_ERROR", "SOURCE_ERROR", "WRITER_ERROR", "PUSH_ERROR"}

\* C1: in every reachable state 0 <= current_mem <= MAX_TABLE_FILE_MEM, so
\* the size_t subtraction of GetMemLeft does not wrap: it is the mathematical
\* difference.
C1_MemWithinCeiling ==
    /\ 0 <= current_mem
    /\ current_mem <= MAX_TABLE_FILE_MEM
    /\ IsSmall(GetMemLeft)
    /\ ToInt(GetMemLeft) = MAX_TABLE_FILE_MEM - current_mem

\* C1 witness: an admission cut short by the quota has left less than one
\* more record of room below the ceiling.
C1_Witness ==
    /\ IsAdd
    /\ last.status = "OK"
    /\ last.admitted > 0
    /\ last.batch_len > last.admitted
    /\ current_mem > last.mem_before
    /\ MAX_TABLE_FILE_MEM - current_mem < ToInt(last.size)
    /\ MAX_TABLE_FILE_MEM - current_mem > 0

\* C2: an Add / AddEntities call with a positive dimension and
\* remaining >= single_record_size hands the source the quota
\* floor(remaining / single_record_size); when the source succeeds it admits
\* min(batch size, quota) records and current_mem grows by exactly
\* admitted * single_record_size.
C2_QuotaIsFloor ==
    (IsAdd /\ last.dim > 0
           /\ MAX_TABLE_FILE_MEM - last.mem_before >= ToInt(last.size))
        => /\ last.pushed
           /\ ToInt(last.quota) * ToInt(last.size) <= MAX_TABLE_FILE_MEM - last.mem_before
           /\ (ToInt(last.quota) + 1) * ToInt(last.size) > MAX_TABLE_FILE_MEM - last.mem_before
           /\ last.status = "OK"
                  => /\ last.admitted = Min(last.batch_len, ToInt(last.quota))
                     /\ last.admitted <= ToInt(last.quota)
                     /\ current_mem = last.mem_before + last.admitted * ToInt(last.size)

\* C2 witness: the remaining capacity is no multiple of the record size and
\* the batch is larger than the quota, which is admitted in full.
C2_Witness ==
    /\ IsAdd
    /\ last.status = "OK"
    /\ last.pushed
    /\ (MAX_TABLE_FILE_MEM - last.mem_before) % ToInt(last.size) # 0
    /\ last.batch_len > ToInt(last.quota)
    /\ last.admitted = ToInt(last.quota)
    /\ ToInt(last.quota) >= 1
    /\ Len(uids) = Len(last.uids_before) + last.admitted

\* C3: Delete(id batch) leaves the identifier column equal to the original
\* column without the rows whose id occurs in the input, survivors in their
\* original order; buffer [5,2,9,2,7] with delete-set {2,9} yields [5,7].
C3_BatchDeleteRemovesMembers ==
    /\ last.op = "DeleteBatch"
           => /\ last.status = "OK"
              /\ uids = Without(last.uids_before, Range(last.ids))
    /\ DeleteMany(<<5, 2, 9, 2, 7>>, <<2, 9>>) = <<5, 7>>
    /\ DeleteMany(<<5, 2, 9, 2, 7>>, <<9, 2, 9>>) = <<5, 7>>

\* C3 witness: a four-row buffer whose first two rows share an id, whose
\* first and last rows match an unsorted input list, and one row survives.
C3_Witness ==
    /\ last.op = "DeleteBatch"
    /\ Len(last.uids_before) = 4
    /\ last.uids_before[1] = last.uids_before[2]
    /\ last.uids_before[1] \in Range(last.ids)
    /\ last.uids_before[4] \in Range(last.ids)
    /\ Len(last.ids) = 2
    /\ last.ids[1] > last.ids[2]
    /\ Len(uids) = 1

\* C4: Delete(single id) returns success; on a buffer holding the id it
\* erases the first slot holding it (one row less, the others in order), on a
\* buffer not holding it the buffer is unchanged.
C4_SingleDeleteErasesFirst ==
    last.op = "Delete"
        => LET id == last.ids[1]
               before == last.uids_before
           IN
           /\ last.status = "OK"
           /\ id \notin Range(before) => uids = before
           /\ id \in Range(before)
                  => /\ Len(uids) = Len(before) - 1
                     /\ \E k \in 1 .. Len(before) :
                            /\ before[k] = id
                            /\ \A j \in 1 .. k - 1 : before[j] # id
                            /\ uids = SubSeq(before, 1, k - 1)
                                          \o SubSeq(before, k + 1, Len(before))

\* C4 witness: the id is held by the first and the last of three rows, and
\* the first one went.
C4_Witness ==
    /\ last.op = "Delete"
    /\ Len(last.uids_before) = 3
    /\ last.uids_before[1] = last.ids[1]
    /\ last.uids_before[3] = last.ids[1]
    /\ last.uids_before[2] # last.ids[1]
    /\ uids = Tail(last.uids_before)

\* C5 (as claimed): when the dimension lookup fails (GetDimension is 0),
\* IsFull() is true, whatever current_mem is.
C5_FullWhenDimensionFails ==
    /\ GetDimension = 0 => IsFull
    /\ (last.op = "IsFull" /\ last.dim = 0) => last.ret

\* C6 (as claimed): after a failed CreateSegment the controller has no valid
\* segment and current_mem = 0, and every Add, AddEntities and Serialize call
\* returns an error status.
C6_FailedConstructionIsSurfaced ==
    segment = 0
        => /\ current_mem = 0
           /\ last.op \in {"Add", "AddEntities", "Serialize"}
                  => last.status \in ErrorStatuses

\* C7: in Serialize, when the writer's serialization fails the call returns
\* that failure and makes no Push; every Push follows a successful writer
\* serialization in the same call.
C7_NoPushAfterWriterFailure ==
    last.op = "Serialize"
        => /\ (\E i \in 1 .. Len(last.calls) : last.calls[i] = "WriterSerialize:ERROR")
                  => /\ last.status = "WRITER_ERROR"
                     /\ \A i \in 1 .. Len(last.calls) :
                            last.calls[i] \notin {"Push:OK", "Push:ERROR"}
           /\ \A i \in 1 .. Len(last.calls) :
                  last.calls[i] \in {"Push:OK", "Push:ERROR"}
                      => \E j \in 1 .. i - 1 : last.calls[j] = "WriterSerialize:OK"

\* C7 witness: a Serialize whose first phase succeeded and whose writer failed.
C7_Witness ==
    /\ last.op = "Serialize"
    /\ last.status = "WRITER_ERROR"
    /\ last.calls = <<"CommitNewSegmentFile:OK", "SetSegmentName",
                      "WriterSerialize:ERROR">>
    /\ Len(uids) > 0

\* C8: for a positive current dimension d, IsFull() is true iff
\* MAX_TABLE_FILE_MEM - current_mem < d * FLOAT_TYPE_SIZE, whichever way the
\* buffered records were admitted; with a ceiling of 1000 and d = 10 it is
\* true at 970 and false at 960.
C8_FullIffLessThanOneVector ==
    /\ GetDimension > 0
           => (IsFull <=>
                   MAX_TABLE_FILE_MEM - current_mem < GetDimension * FLOAT_TYPE_SIZE)
    /\ (last.op = "IsFull" /\ last.dim > 0)
           => (last.ret <=>
                   MAX_TABLE_FILE_MEM - last.mem_before < last.dim * FLOAT_TYPE_SIZE)
    /\ IsFullAt(1000, 970, 10)
    /\ ~IsFullAt(1000, 960, 10)

\* C8 witness: IsFull has answered true on a buffer that holds entity
\* payloads (the counter is no multiple of the float size) with room left.
C8_Witness ==
    /\ last.op = "IsFull"
    /\ last.dim > 0
    /\ last.ret
    /\ current_mem % FLOAT_TYPE_SIZE # 0
    /\ MAX_TABLE_FILE_MEM - current_mem > 0

\* C9: with a dimension <= 0, Add and AddEntities return an error status,
\* push nothing into the writer and leave current_mem and the buffered rows
\* unchanged.
C9_BadDimensionRejected ==
    (IsAdd /\ last.dim <= 0)
        => /\ last.status = "DB_ERROR"
           /\ ~last.pushed
           /\ last.admitted = 0
           /\ current_mem = last.mem_before
           /\ uids = last.uids_before

\* C9 witness: a non-empty batch offered at a negative dimension to a buffer
\* that already holds rows.
C9_Witness ==
    /\ IsAdd
    /\ last.dim < 0
    /\ last.status = "DB_ERROR"
    /\ last.batch_len > 0
    /\ Len(uids) > 0
    /\ current_mem > 0

\* C10: with a positive dimension and remaining < single_record_size, Add /
\* AddEntities returns success, never calls the source's push and leaves
\* current_mem and the buffered rows unchanged.
C10_SaturationIsNoOp ==
    (IsAdd /\ last.dim > 0
           /\ MAX_TABLE_FILE_MEM - last.mem_before < ToInt(last.size))
        => /\ last.status = "OK"
           /\ ~last.pushed
           /\ last.admitted = 0
           /\ current_mem = last.mem_before
           /\ uids = last.uids_before

\* C10 witness: an entity batch refused for lack of room by a buffer that
\* still has room for one vector.
C10_Witness ==
    /\ last.op = "AddEntities"
    /\ last.dim > 0
    /\ MAX_TABLE_FILE_MEM - last.mem_before < ToInt(last.size)
    /\ last.status = "OK"
    /\ last.batch_len > 0
    /\ Len(uids) > 0
    /\ ~IsFullOf(current_mem, last.dim)

\* The vocabulary of the later properties.
IsDelete == last.op \in {"Delete", "DeleteBatch"}

Calls == Range(last.calls)

Distinct(column) ==
    \A i, j \in 1 .. Len(column) : i # j => column[i] # column[j]

\* Delete(doc_id) applied once per id of the list, in the list's order.
RECURSIVE DeleteEach(_, _)
DeleteEach(column, ids) ==
    IF ids = <<>> THEN column
    ELSE DeleteEach(DeleteOne(column, Head(ids)), Tail(ids))

\* Every order of the ids of a list.
Orders(ids) ==
    LET n == Len(ids)
        perms == {p \in [1 .. n -> 1 .. n] : \A i, j \in 1 .. n : i # j => p[i] # p[j]}
    IN {[i \in 1 .. n |-> ids[p[i]]] : p \in perms}

\* The rows of a column whose id is in id_set.
Holds(column, id_set) == Cardinality({i \in 1 .. Len(column) : column[i] \in id_set})

\* The largest record size a source can have.
MaxRecordSize == MaxDim * FLOAT_TYPE_SIZE + MaxAttrSize

\* What a flush holds when every collaborator succeeded.
FlushedState ==
    /\ last.status = "OK"
    /\ last.calls = Phase1Calls(TRUE, TRUE) \o Phase2Calls(TRUE)
    /\ ToInt(last.size) \in WriterSizes
    /\ last.seg_file = [valid |-> TRUE, size |-> ToInt(last.size), row_count |-> VectorCount]

\* The change of the number of rows held in one step: the records the call
\* admitted, less the rows it erased.
RowsStep ==
    Len(uids') = Len(uids)
                 + (IF last'.op \in {"Add", "AddEntities"} /\ last'.status = "OK"
                       /\ segment_writer
                    THEN last'.admitted ELSE 0)
                 - (IF last'.op = "Delete" /\ last'.status = "OK"
                    THEN Min(1, Holds(uids, Range(last'.ids)))
                    ELSE IF last'.op = "DeleteBatch" /\ last'.status = "OK"
                    THEN Holds(uids, Range(last'.ids))
                    ELSE 0)

\* C11: on a successfully constructed controller a Serialize in which no
\* collaborator fails returns success from any buffer state, the empty one
\* included, and the committed segment file carries the writer's own size and
\* row count at that moment; the row count is the records admitted less the
\* rows erased, step by step.
C11_FlushCarriesWriterCounters ==
    /\ [](( /\ last.op = "Serialize"
            /\ segment # 0
            /\ Calls \cap {"CommitNewSegmentFile:ERROR", "WriterSerialize:ERROR",
                           "Push:ERROR"} = {} )
          => FlushedState)
    /\ [][RowsStep]_vars

\* C11 witness: a successful flush of a buffer that holds fewer rows than
\* were admitted, some having been erased.
C11_Witness ==
    /\ last.op = "Serialize"
    /\ segment # 0
    /\ last.status = "OK"
    /\ Len(uids) >= 1
    /\ current_mem > Len(uids) * MaxRecordSize
    /\ last.seg_file.row_count = Len(uids)
    /\ last.seg_file.size > 0

C13_DeleteKeepsMemory ==
    IsDelete
        => /\ current_mem = last.mem_before
           /\ last.status = "OK"
           /\ \A d \in Dims : IsFullOf(current_mem, d) = IsFullOf(last.mem_before, d)
           /\ \A size \in 1 .. MaxRecordSize :
                  NumToAdd(GetMemLeftOf(current_mem), ToSizeT(size))
                      = NumToAdd(GetMemLeftOf(last.mem_before), ToSizeT(size))

\* C14: on a successfully constructed controller GetSegmentId returns the
\* same value before and after every operation.
C14_SegmentIdStable == [][segment # 0 => GetSegmentId' = GetSegmentId]_vars

\* C14 witness: a constructed controller after an admission and a flush whose
\* push failed.
C14_Witness ==
    /\ GetSegmentId # 0
    /\ last.op = "Serialize"
    /\ last.status = "PUSH_ERROR"
    /\ current_mem > 0

\* C15: current_mem starts at 0 and never decreases; it increases only in an
\* Add / AddEntities that returns success and admitted at least one record.
C15_MemMonotone ==
    /\ current_mem = 0
    /\ [][ /\ current_mem' >= current_mem
           /\ current_mem' > current_mem
                  => /\ last'.op \in {"Add", "AddEntities"}
                     /\ last'.status = "OK"
                     /\ last'.admitted >= 1 ]_vars

\* C15 witness: a second successful admission raised a counter that was
\* already positive.
C15_Witness ==
    /\ IsAdd
    /\ last.status = "OK"
    /\ last.admitted >= 1
    /\ last.mem_before > 0
    /\ current_mem > last.mem_before

\* C16: with two threads in Add / AddEntities, current_mem exceeds the
\* ceiling, or differs from the bytes admitted once both have returned, only
\* if one call began while the other was between its capacity read and its
\* counter store; calls that run one after the other never reach such a state.
C16_OvershootOnlyWhenInterleaved ==
    ( \/ current_mem > MAX_TABLE_FILE_MEM
      \/ AllIdle /\ current_mem # admitted_bytes )
        => overlapped

\* C16 witness: both calls returned, they had interleaved, and the counter is
\* above the ceiling.
C16_Witness ==
    /\ AllIdle
    /\ overlapped
    /\ current_mem > MAX_TABLE_FILE_MEM

\* C17 as stated: whenever Add or AddEntities admits nothing because the
\* remaining capacity is below the record size, at a positive dimension,
\* IsFull in the same state is true.
C17_SaturationImpliesFull ==
    (IsAdd /\ last.dim > 0 /\ last.status = "OK" /\ ~last.pushed) => IsFull

\* C17: whenever a call whose record size is the vector size
\* dimension * FLOAT_TYPE_SIZE (every Add, and an AddEntities without
\* attribute payload) admits nothing because the remaining capacity is below
\* the record size, IsFull in the same state is true.
C17_VectorSaturationImpliesFull ==
    (IsAdd /\ last.dim > 0 /\ last.status = "OK" /\ ~last.pushed
           /\ ToInt(last.size) = last.dim * FLOAT_TYPE_SIZE) => IsFull

\* C17 witness: an Add found some room left, but less than one vector, and
\* the buffer reports full.
C17_Witness ==
    /\ last.op = "Add"
    /\ last.dim > 0
    /\ last.status = "OK"
    /\ ~last.pushed
    /\ ToInt(last.mem_left) > 0
    /\ IsFull

\* C18: in Serialize, Push is invoked only if CommitNewSegmentFile succeeded,
\* success is returned only if the commit, the write and the push all
\* succeeded, and a failed CommitNewSegmentFile is the status returned.
C18_CommitFailureReported ==
    last.op = "Serialize"
        => /\ (Calls \cap {"Push:OK", "Push:ERROR"} # {})
                  => "CommitNewSegmentFile:OK" \in Calls
           /\ last.status = "OK"
                  => {"CommitNewSegmentFile:OK", "WriterSerialize:OK", "Push:OK"}
                         \subseteq Calls
           /\ "CommitNewSegmentFile:ERROR" \in Calls => last.status = "COMMIT_ERROR"

\* C19: on a column of pairwise distinct ids Delete(doc_ids) leaves what
\* Delete(doc_id) applied once per id of the list leaves, in every order of
\* the list; and on any column a second Delete of the same list changes
\* nothing.
C19_BatchIsRepeatedSingle ==
    last.op = "DeleteBatch"
        => /\ Distinct(last.uids_before)
                  => \A order \in Orders(last.ids) :
                         uids = DeleteEach(last.uids_before, order)
           /\ DeleteMany(uids, last.ids) = uids

\* C19 witness: an unsorted list of two ids was deleted from a column of at
\* least three distinct ids, both being held.
C19_Witness ==
    /\ last.op = "DeleteBatch"
    /\ Distinct(last.uids_before)
    /\ Len(last.uids_before) >= 3
    /\ Len(last.ids) = 2
    /\ last.ids[1] > last.ids[2]
    /\ Len(uids) = Len(last.uids_before) - 2

\* C20: when the source's push fails in Add / AddEntities the call returns
\* that failure and current_mem is what it was, whatever count the source
\* reported.
C20_FailedPushKeepsMemory ==
    (IsAdd /\ last.pushed /\ last.status = "SOURCE_ERROR")
        => /\ current_mem = last.mem_before
           /\ uids = last.uids_before

\* C20 witness: the source failed on a live writer after reporting a
\* positive count.
C20_Witness ==
    /\ IsAdd
    /\ last.pushed
    /\ last.status = "SOURCE_ERROR"
    /\ last.admitted > 0
    /\ segment_writer
    /\ last.mem_before > 0

====
